---- MODULE Spec2Model ----
(***************************************************************************)
(* Model of the ripple reducer of react-md                                 *)
(* (packages/states/src/ripples/reducer.ts).                               *)
(*                                                                         *)
(* The ripple set is a sequence of ripple records.  Every record carries   *)
(* a field `ref` that stands for the identity of the JavaScript object:    *)
(* two records are the same object (===) iff their refs are equal.  Every  *)
(* object literal the reducer builds gets a ref that no object of the      *)
(* current set has; objects outside the set (copies kept from an earlier   *)
(* snapshot) all carry StaleRef, as the reducer never compares two of      *)
(* them.  Date.now() is the variable `now`, advanced by the environment.   *)
(*                                                                         *)
(* Spec is the reducer under every sequence of actions.  GestureSpec adds  *)
(* the browser's tap gesture: pendingMouse is a history variable saying    *)
(* that a touch of a tap has created a ripple and that the mouse event the *)
(* browser synthesizes for that tap has not been delivered yet.            *)
(* SnapshotSpec adds a renderer that keeps one record of the set it has    *)
(* rendered (the variable `rendered`, empty in the other specifications)   *)
(* and calls entered(ripple) and remove(ripple) with it later on.          *)
(***************************************************************************)
EXTENDS Integers, Sequences, FiniteSets, TLC

\* ---- bounds ----
MaxRipples == 2

\* ---- program constants ----
ExitThreshold == 300

\* Instants the clock may show (milliseconds).
Instants == {0, 50, 60, 300, 350}

StaleRef == 0
Refs == 1..(2 * MaxRipples + 1)

VARIABLES state, now, pendingMouse, rendered

vars == <<state, now, pendingMouse, rendered>>

\* ---- events delivered to create() ----
Surface == "surface"
Child == "child"

Event(type, button, key, target) ==
  [type |-> type, button |-> button, key |-> key, target |-> target,
   currentTarget |-> Surface]

TouchEvents ==
  {Event("touchstart", 0, "", Surface), Event("touchstart", 0, "", Child)}

MouseEvents ==
  {Event("mousedown", 0, "", Surface), Event("mousedown", 2, "", Surface)}

KeyEvents ==
  {Event("keydown", 0, "Enter", Surface), Event("keydown", 0, " ", Surface),
   Event("keydown", 0, "a", Surface)}

Events == TouchEvents \cup MouseEvents \cup KeyEvents

\* the CREATE actions: an event and the flag disableSpacebarClick, which only
\* keyboard events read
CreateActions ==
  {[event |-> e, disableSpacebarClick |-> d] :
     e \in Events, d \in BOOLEAN} \ 
  {[event |-> e, disableSpacebarClick |-> TRUE] :
     e \in TouchEvents \cup MouseEvents}

\* ---- input classifier (utils) ----
isRippleable(event, disableSpacebarClick) ==
  CASE event.type = "mousedown" -> event.button = 0
    [] event.type = "keydown" ->
         \/ event.key = "Enter"
         \/ event.key = " " /\ ~disableSpacebarClick
    [] OTHER -> TRUE

isBubbled(event) == event.target # event.currentTarget

getType(event) ==
  CASE event.type = "touchstart" -> "touch"
    [] event.type = "mousedown" -> "mouse"
    [] OTHER -> "keyboard"

\* ---- object identity ----
UsedRefs(s) == {s[i].ref : i \in 1..Len(s)}

\* the record the renderer still holds is a live object as well
FreeRefs(s) == Refs \ (UsedRefs(s) \cup UsedRefs(rendered))

\* the k-th object allocated while the objects of s are alive
NthFresh(s, k) ==
  CHOOSE r \in FreeRefs(s) : Cardinality({q \in FreeRefs(s) : q < r}) = k - 1

createRippleState(s, event, t) ==
  [ref |-> NthFresh(s, 1), startTime |-> t, holding |-> TRUE,
   entered |-> FALSE, exiting |-> FALSE, mounted |-> TRUE,
   type |-> getType(event)]

\* Array.prototype.findIndex: the first of the indices (1-based) at which the
\* predicate holds; 0 stands for -1
FindIndex(hits) ==
  IF hits = {} THEN 0 ELSE CHOOSE i \in hits : \A j \in hits : i <= j

\* Array.prototype.splice(i, 1) on a copy
Splice(s, i) == [j \in 1..(Len(s) - 1) |-> IF j < i THEN s[j] ELSE s[j + 1]]

\* ---- transition rules ----
\* faulty variant: the guard against a mouse event after a touch is missing
createRipple_NoTouchGuard(s, event, disableSpacebarClick, t) ==
  IF ~isRippleable(event, disableSpacebarClick) \/ isBubbled(event)
  THEN s
  ELSE Append(s, createRippleState(s, event, t))

\* faulty variant: the isBubbled test is missing
createRipple_IgnoresBubbled(s, event, disableSpacebarClick, t) ==
  IF ~isRippleable(event, disableSpacebarClick)
  THEN s
  ELSE IF getType(event) # "touch" /\ \E i \in 1..Len(s) : s[i].type = "touch"
  THEN s
  ELSE Append(s, createRippleState(s, event, t))

createRipple(s, event, disableSpacebarClick, t) ==
  IF ~isRippleable(event, disableSpacebarClick) \/ isBubbled(event)
  THEN s
  ELSE IF getType(event) # "touch" /\ \E i \in 1..Len(s) : s[i].type = "touch"
  THEN s
  ELSE Append(s, createRippleState(s, event, t))

\* enteredRipple with the new value of `exiting` as a parameter (used by its
\* faulty variants)
EnteredWith(s, ripple, exiting) ==
  LET i == FindIndex({k \in 1..Len(s) : s[k].ref = ripple.ref})
  IN IF i = 0 \/ ripple.exiting
     THEN s
     ELSE [s EXCEPT ![i] = [ripple EXCEPT !.exiting = exiting,
                                          !.entered = TRUE,
                                          !.ref = NthFresh(s, 1)]]

\* faulty variant: `holding` where the code has `!holding`
enteredRipple_HoldingExits(s, ripple, t) ==
  EnteredWith(s, ripple,
              ripple.holding \/ t - ripple.startTime > ExitThreshold)

\* faulty variant: the `!holding` clause is missing
enteredRipple_TimeOnly(s, ripple, t) ==
  EnteredWith(s, ripple, t - ripple.startTime > ExitThreshold)

\* faulty variant: `>=` where the code has `>`
enteredRipple_AtThreshold(s, ripple, t) ==
  EnteredWith(s, ripple,
              ~ripple.holding \/ t - ripple.startTime >= ExitThreshold)

\* faulty variant: the entry is looked up by startTime, as removeRipple does
enteredRipple_ByStartTime(s, ripple, t) ==
  LET i == FindIndex({k \in 1..Len(s) : s[k].startTime = ripple.startTime})
  IN IF i = 0 \/ ripple.exiting
     THEN s
     ELSE [s EXCEPT ![i] = [ripple EXCEPT
                              !.exiting = ~ripple.holding
                                \/ t - ripple.startTime > ExitThreshold,
                              !.entered = TRUE,
                              !.ref = NthFresh(s, 1)]]

\* faulty variant: `|| ripple.exiting` is missing from the early return
enteredRipple_NoExitingGuard(s, ripple, t) ==
  LET i == FindIndex({k \in 1..Len(s) : s[k].ref = ripple.ref})
  IN IF i = 0
     THEN s
     ELSE [s EXCEPT ![i] = [ripple EXCEPT
                              !.exiting = ~ripple.holding
                                \/ t - ripple.startTime > ExitThreshold,
                              !.entered = TRUE,
                              !.ref = NthFresh(s, 1)]]

enteredRipple(s, ripple, t) ==
  LET i == FindIndex({k \in 1..Len(s) : s[k].ref = ripple.ref})
  IN IF i = 0 \/ ripple.exiting
     THEN s
     ELSE LET exiting == ~ripple.holding \/ t - ripple.startTime > ExitThreshold
          IN [s EXCEPT ![i] = [ripple EXCEPT !.exiting = exiting,
                                             !.entered = TRUE,
                                             !.ref = NthFresh(s, 1)]]

\* faulty variant: the last ripple that is holding and not exiting is released
releaseRipple_LastHeld(s, t) ==
  LET IsHeld(r) == r.holding /\ ~r.exiting
  IN IF \A i \in 1..Len(s) : ~IsHeld(s[i])
     THEN s
     ELSE LET i == CHOOSE k \in 1..Len(s) :
                     IsHeld(s[k]) /\ \A j \in (k + 1)..Len(s) : ~IsHeld(s[j])
              ripple == s[i]
              exiting == ripple.entered
                           \/ t - ripple.startTime > ExitThreshold
          IN [s EXCEPT ![i] = [ripple EXCEPT !.exiting = exiting,
                                             !.holding = FALSE,
                                             !.ref = NthFresh(s, 1)]]

\* faulty variant: a released ripple exits at once
releaseRipple_AlwaysExit(s, t) ==
  LET i == FindIndex({k \in 1..Len(s) : s[k].holding /\ ~s[k].exiting})
  IN IF i = 0
     THEN s
     ELSE [s EXCEPT ![i] = [s[i] EXCEPT !.exiting = TRUE,
                                        !.holding = FALSE,
                                        !.ref = NthFresh(s, 1)]]

\* faulty variant: a ripple that is already exiting can be released again
releaseRipple_IgnoresExiting(s, t) ==
  LET i == FindIndex({k \in 1..Len(s) : s[k].holding})
  IN IF i = 0
     THEN s
     ELSE LET ripple == s[i]
              exiting == ripple.entered \/ t - ripple.startTime > ExitThreshold
          IN [s EXCEPT ![i] = [ripple EXCEPT !.exiting = exiting,
                                             !.holding = FALSE,
                                             !.ref = NthFresh(s, 1)]]

\* faulty variant: every ripple that is holding and not exiting is released
releaseRipple_AllHeld(s, t) ==
  [i \in 1..Len(s) |->
     IF s[i].holding /\ ~s[i].exiting
     THEN [s[i] EXCEPT !.exiting = s[i].entered
                                     \/ t - s[i].startTime > ExitThreshold,
                       !.holding = FALSE,
                       !.ref = NthFresh(s, i)]
     ELSE s[i]]

\* faulty variant: `holding: false` is missing
releaseRipple_KeepHolding(s, t) ==
  LET i == FindIndex({k \in 1..Len(s) : s[k].holding /\ ~s[k].exiting})
  IN IF i = 0
     THEN s
     ELSE [s EXCEPT ![i] = [s[i] EXCEPT
                              !.exiting = s[i].entered
                                \/ t - s[i].startTime > ExitThreshold,
                              !.ref = NthFresh(s, 1)]]

releaseRipple(s, t) ==
  LET i == FindIndex({k \in 1..Len(s) : s[k].holding /\ ~s[k].exiting})
  IN IF i = 0
     THEN s
     ELSE LET ripple == s[i]
              exiting == ripple.entered \/ t - ripple.startTime > ExitThreshold
          IN [s EXCEPT ![i] = [ripple EXCEPT !.exiting = exiting,
                                             !.holding = FALSE,
                                             !.ref = NthFresh(s, 1)]]

\* faulty variant: the `i === -1` test is missing, and splice(-1, 1) removes
\* the last entry
removeRipple_NoGuard(s, ripple) ==
  LET i == FindIndex({k \in 1..Len(s) : s[k].startTime = ripple.startTime})
  IN IF i = 0
     THEN IF s = <<>> THEN s ELSE SubSeq(s, 1, Len(s) - 1)
     ELSE Splice(s, i)

\* faulty variant: every entry with the startTime of `ripple` is removed
removeRipple_AllSameStart(s, ripple) ==
  SelectSeq(s, LAMBDA r : r.startTime # ripple.startTime)

removeRipple(s, ripple) ==
  LET i == FindIndex({k \in 1..Len(s) : s[k].startTime = ripple.startTime})
  IN IF i = 0 THEN s ELSE Splice(s, i)

\* faulty variant: `holding: false` is missing
cancelRipples_KeepHolding(s, ease) ==
  IF ease
  THEN [i \in 1..Len(s) |-> [s[i] EXCEPT !.exiting = TRUE,
                                         !.mounted = TRUE,
                                         !.ref = NthFresh(s, i)]]
  ELSE <<>>

cancelRipples(s, ease) ==
  IF ease
  THEN [i \in 1..Len(s) |-> [s[i] EXCEPT !.exiting = TRUE,
                                         !.mounted = TRUE,
                                         !.holding = FALSE,
                                         !.ref = NthFresh(s, i)]]
  ELSE <<>>

\* ---- ripple arguments the renderer may pass to entered() and remove() ----
\* flags <<holding, entered, exiting>> of a record of an earlier snapshot
StaleFlags == {<<TRUE, FALSE, FALSE>>, <<FALSE, TRUE, TRUE>>}

\* a record of an earlier snapshot: another object, same startTime
StaleCopies(r) ==
  {[r EXCEPT !.ref = StaleRef, !.holding = f[1], !.entered = f[2],
             !.exiting = f[3]] : f \in StaleFlags}

\* records of ripples that are no longer in the set
AbsentRipples(s) ==
  {[ref |-> StaleRef, startTime |-> t, holding |-> FALSE, entered |-> TRUE,
    exiting |-> TRUE, mounted |-> TRUE, type |-> "mouse"] :
      t \in {u \in Instants :
                u <= now /\ \A i \in 1..Len(s) : s[i].startTime # u}}

\* idx: the entry of the set the argument was taken from (0: none)
RippleArgs(s) ==
  {[idx |-> i, ripple |-> s[i]] : i \in 1..Len(s)}
    \cup UNION {{[idx |-> i, ripple |-> c] : c \in StaleCopies(s[i])} :
                  i \in 1..Len(s)}
    \cup {[idx |-> 0, ripple |-> a] : a \in AbsentRipples(s)}

\* ---- the state machine ----
Init ==
  /\ state = <<>>
  /\ now = 0
  /\ pendingMouse = FALSE
  /\ rendered = <<>>

\* the clock advances between two events
Tick ==
  /\ \E t \in Instants : t > now /\ now' = t
  /\ UNCHANGED <<state, pendingMouse, rendered>>

\* reducer, case CREATE
Create(action) ==
  LET next == createRipple(state, action.event, action.disableSpacebarClick,
                           now)
  IN /\ Len(next) <= MaxRipples
     /\ state' = next
     /\ UNCHANGED <<now, pendingMouse, rendered>>

\* reducer, case RELEASE
Release ==
  /\ state' = releaseRipple(state, now)
  /\ UNCHANGED <<now, pendingMouse, rendered>>

\* reducer, case ENTERED
Entered(arg) ==
  /\ state' = enteredRipple(state, arg.ripple, now)
  /\ UNCHANGED <<now, pendingMouse, rendered>>

\* reducer, case REMOVE
Remove(arg) ==
  /\ state' = removeRipple(state, arg.ripple)
  /\ UNCHANGED <<now, pendingMouse, rendered>>

\* reducer, case CANCEL
Cancel(ease) ==
  /\ state' = cancelRipples(state, ease)
  /\ UNCHANGED <<now, pendingMouse, rendered>>

Next ==
  \/ Tick
  \/ \E a \in CreateActions : Create(a)
  \/ Release
  \/ \E a \in RippleArgs(state) : Entered(a)
  \/ \E a \in RippleArgs(state) : Remove(a)
  \/ \E ease \in BOOLEAN : Cancel(ease)

Spec == Init /\ [][Next]_vars

\* ---- the tap gesture of a touch device ----
\* the touchstart of a tap: CREATE, and a mouse event will follow if the
\* touch created a ripple
TapTouch ==
  LET next == createRipple(state, Event("touchstart", 0, "", Surface), FALSE,
                           now)
  IN /\ Len(next) <= MaxRipples
     /\ next # state
     /\ state' = next
     /\ pendingMouse' = TRUE
     /\ UNCHANGED <<now, rendered>>

\* the mousedown the browser synthesizes for the tap: CREATE
TapMouse ==
  /\ pendingMouse
  /\ state' = createRipple(state, Event("mousedown", 0, "", Surface), FALSE,
                           now)
  /\ Len(state') <= MaxRipples
  /\ pendingMouse' = FALSE
  /\ UNCHANGED <<now, rendered>>

GestureNext == Next \/ TapTouch \/ TapMouse

GestureSpec == Init /\ [][GestureNext]_vars

\* ---- a renderer that calls back with the record it rendered ----
\* the renderer keeps the record of a ripple it shows and that is not yet
\* exiting, for the callbacks of its transition
Render(i) ==
  /\ rendered = <<>>
  /\ i \in 1..Len(state)
  /\ ~state[i].exiting
  /\ rendered' = <<state[i]>>
  /\ UNCHANGED <<state, now, pendingMouse>>

\* entered(ripple) with the record kept: dispatch ENTERED
EnteredRendered ==
  /\ rendered # <<>>
  /\ state' = enteredRipple(state, rendered[1], now)
  /\ UNCHANGED <<now, pendingMouse, rendered>>

\* remove(ripple) with the record kept: dispatch REMOVE; the renderer is
\* done with the record
RemoveRendered ==
  /\ rendered # <<>>
  /\ state' = removeRipple(state, rendered[1])
  /\ UNCHANGED <<now, pendingMouse, rendered>>

MouseDown ==
  [event |-> Event("mousedown", 0, "", Surface), disableSpacebarClick |-> FALSE]

SnapshotNext ==
  \/ Tick
  \/ Create(MouseDown)
  \/ Release
  \/ \E i \in 1..Len(state) : Entered([idx |-> i, ripple |-> state[i]])
  \/ \E i \in 1..Len(state) : Remove([idx |-> i, ripple |-> state[i]])
  \/ Cancel(TRUE)
  \/ \E i \in 1..MaxRipples : Render(i)
  \/ EnteredRendered
  \/ RemoveRendered

SnapshotSpec == Init /\ [][SnapshotNext]_vars

\* ---- a cooperative host ----
\* entered(ripple) with the current record of a ripple that is not exiting
EnteredCurrent(i) ==
  /\ i \in 1..Len(state)
  /\ ~state[i].exiting
  /\ Entered([idx |-> i, ripple |-> state[i]])

\* remove(ripple) with the current record of an exiting ripple, at the end
\* of its exit animation
RemoveExiting(i) ==
  /\ i \in 1..Len(state)
  /\ state[i].exiting
  /\ Remove([idx |-> i, ripple |-> state[i]])

LiveNext ==
  \/ Tick
  \/ \E a \in CreateActions : Create(a)
  \/ Release
  \/ \E i \in 1..MaxRipples : EnteredCurrent(i)
  \/ \E i \in 1..MaxRipples : RemoveExiting(i)

\* the host delivers RELEASE while a ripple is held, ENTERED for every
\* ripple that is not exiting and REMOVE for every exiting ripple
LiveSpec ==
  /\ Init
  /\ [][LiveNext]_vars
  /\ WF_vars(Release)
  /\ \A i \in 1..MaxRipples :
       WF_vars(EnteredCurrent(i)) /\ WF_vars(RemoveExiting(i))

TypeOK ==
  /\ now \in Instants
  /\ pendingMouse \in BOOLEAN
  /\ Len(rendered) <= 1
  /\ Len(state) <= MaxRipples
  /\ \A i \in 1..Len(state) : state[i].ref \in Refs

\* ---- vocabulary of the properties ----
NoTouchIn(s) == \A i \in 1..Len(s) : s[i].type # "touch"

Accepts(event, disableSpacebarClick) ==
  isRippleable(event, disableSpacebarClick) /\ ~isBubbled(event)

Held(r) == r.holding /\ ~r.exiting

HasHeld(s) == \E i \in 1..Len(s) : Held(s[i])

FirstHeld(s) ==
  CHOOSE i \in 1..Len(s) : Held(s[i]) /\ \A j \in 1..(i - 1) : ~Held(s[j])

\* the position of the object `ripple` in s
PositionOf(s, ripple) == CHOOSE i \in 1..Len(s) : s[i].ref = ripple.ref

Present(s, ripple) == \E i \in 1..Len(s) : s[i].ref = ripple.ref

Elapsed(r) == now - r.startTime

\* s2 is s1 with only entry i replaced
OnlyChanged(s1, s2, i) ==
  /\ Len(s2) = Len(s1)
  /\ \A j \in 1..Len(s1) : j # i => s2[j] = s1[j]

\* ---- C1 ----
\* C1: CREATE appends exactly one new ripple (holding, not entered, not
\* exiting, mounted, startTime = now) at the end of the set and leaves the
\* existing entries and their positions unchanged iff the classifier accepts
\* the event and (its modality is touch or no ripple of the set has modality
\* touch); in every other case the set is unchanged.
C1_CreateAppendsIffAccepted ==
  [][\A a \in CreateActions :
       Create(a) =>
         IF /\ Accepts(a.event, a.disableSpacebarClick)
            /\ (getType(a.event) = "touch" \/ NoTouchIn(state))
         THEN /\ Len(state') = Len(state) + 1
              /\ SubSeq(state', 1, Len(state)) = state
              /\ LET r == state'[Len(state')]
                 IN /\ r.holding /\ ~r.entered /\ ~r.exiting /\ r.mounted
                    /\ r.startTime = now
                    /\ r.ref \notin UsedRefs(state)
         ELSE state' = state]_vars

\* a touch ripple appended behind an older touch ripple
C1_Witness ==
  /\ Len(state) = 2
  /\ state[1].type = "touch" /\ state[1].startTime < now
  /\ state[2].type = "touch" /\ state[2].startTime = now
  /\ state[2].holding /\ ~state[2].entered /\ ~state[2].exiting

\* ---- C2 ----
\* C2: at most one ripple per gesture: the mouse CREATE a browser synthesizes
\* for a touch gesture that created a ripple never appends a second ripple,
\* whatever RELEASE, ENTERED, REMOVE and CANCEL events came in between.
C2_OneRipplePerGesture == [][TapMouse => state' = state]_vars

\* ---- C3 ----
\* C3: RELEASE, when some ripple is holding and not exiting, changes only the
\* first such ripple in set order: holding becomes false, exiting becomes
\* (entered or now - startTime > 300), and entered, mounted, startTime and the
\* position stay as they were.
C3_ReleaseFirstHeld ==
  [][Release /\ HasHeld(state) =>
       LET i == FirstHeld(state)
       IN /\ OnlyChanged(state, state', i)
          /\ state'[i].holding = FALSE
          /\ state'[i].exiting = (state[i].entered \/ Elapsed(state[i]) > 300)
          /\ state'[i].entered = state[i].entered
          /\ state'[i].mounted = state[i].mounted
          /\ state'[i].startTime = state[i].startTime
          /\ state'[i].type = state[i].type]_vars

\* the first ripple was released early, the later one is still held
C3_Witness ==
  /\ Len(state) = 2
  /\ ~state[1].holding /\ ~state[1].entered /\ ~state[1].exiting
  /\ state[2].holding /\ ~state[2].exiting
  /\ state[2].startTime = state[1].startTime

\* ---- C4 ----
\* C4: ENTERED(ripple), when the ripple is an object of the set and is not
\* exiting, changes only that ripple: entered becomes true, exiting becomes
\* (not holding or now - startTime > 300), and holding, mounted, startTime and
\* the position stay as they were.
C4_EnteredThatRipple ==
  [][\A a \in RippleArgs(state) :
       Present(state, a.ripple) /\ ~a.ripple.exiting /\ Entered(a) =>
         LET i == PositionOf(state, a.ripple)
         IN /\ OnlyChanged(state, state', i)
            /\ state'[i].entered = TRUE
            /\ state'[i].exiting =
                 (~state[i].holding \/ Elapsed(state[i]) > 300)
            /\ state'[i].holding = state[i].holding
            /\ state'[i].mounted = state[i].mounted
            /\ state'[i].startTime = state[i].startTime
            /\ state'[i].type = state[i].type]_vars

\* the second of two ripples created in the same tick has entered
C4_Witness ==
  /\ Len(state) = 2
  /\ state[1].holding /\ ~state[1].entered /\ ~state[1].exiting
  /\ state[2].holding /\ state[2].entered /\ ~state[2].exiting
  /\ state[2].startTime = state[1].startTime

\* ---- C5 ----
Fresh(r) == r.holding /\ ~r.entered /\ ~r.exiting

ReleasedOnly(r) == ~r.holding /\ ~r.entered /\ ~r.exiting

EnteredOnly(r) == r.holding /\ r.entered /\ ~r.exiting

\* C5: for a ripple whose RELEASE and ENTERED both come no later than 300ms
\* after its startTime, in either order, the first of the two leaves it with
\* exiting = false (after RELEASE: holding = false, exiting = false) and the
\* second leaves it with exiting = true.
C5_SecondOfReleaseEnteredExits ==
  [][/\ Release /\ HasHeld(state) =>
          LET i == FirstHeld(state)
          IN Elapsed(state[i]) <= 300 =>
               /\ Fresh(state[i]) => ReleasedOnly(state'[i])
               /\ EnteredOnly(state[i]) => state'[i].exiting
     /\ \A a \in RippleArgs(state) :
          Present(state, a.ripple) /\ Entered(a) =>
            LET i == PositionOf(state, a.ripple)
            IN Elapsed(state[i]) <= 300 =>
                 /\ Fresh(state[i]) => EnteredOnly(state'[i])
                 /\ ReleasedOnly(state[i]) => state'[i].exiting]_vars

\* created at t0, released and entered by t0+60ms: exiting
C5_Witness ==
  \E i \in 1..Len(state) :
    /\ state[i].startTime = 0 /\ now = 60
    /\ ~state[i].holding /\ state[i].entered /\ state[i].exiting

\* ---- C6 ----
\* C6: the elapsed-time clause fires strictly after 300ms: ENTERED for a
\* present, non-exiting ripple more than 300ms after its startTime sets
\* exiting even when the ripple is still holding, and so does RELEASE of a
\* ripple that has not entered; at startTime + 300ms or earlier exiting is
\* decided by holding (ENTERED) or entered (RELEASE) alone.
C6_ThresholdIsStrict ==
  [][/\ Release /\ HasHeld(state) =>
          LET i == FirstHeld(state)
          IN IF now > state[i].startTime + 300
             THEN state'[i].exiting
             ELSE state'[i].exiting = state[i].entered
     /\ \A a \in RippleArgs(state) :
          Present(state, a.ripple) /\ ~a.ripple.exiting /\ Entered(a) =>
            LET i == PositionOf(state, a.ripple)
            IN IF now > state[i].startTime + 300
               THEN state'[i].exiting
               ELSE state'[i].exiting = ~state[i].holding]_vars

\* entered 350ms after its creation while still holding: exiting
C6_Witness ==
  \E i \in 1..Len(state) :
    /\ state[i].startTime = 0 /\ now = 350
    /\ state[i].holding /\ state[i].entered /\ state[i].exiting

\* ---- C7 ----
\* s without its i-th entry
Without(s, i) == SubSeq(s, 1, i - 1) \o SubSeq(s, i + 1, Len(s))

\* C7: REMOVE(r), for r an entry of the set or a stale copy of one (same
\* startTime, other flags), removes exactly the entry r was taken from and
\* leaves the other entries and their order unchanged.
C7_RemoveThatEntry ==
  [][\A a \in RippleArgs(state) :
       a.idx > 0 /\ Remove(a) => state' = Without(state, a.idx)]_vars

\* ---- C8 ----
\* C8: CANCEL(ease = true) keeps the length and the order of the set and
\* leaves every ripple exiting, not holding and mounted, with its startTime
\* and entered flag unchanged; CANCEL(ease = false) yields the empty set.
C8_CancelEaseOrClear ==
  [][/\ Cancel(TRUE) =>
          /\ Len(state') = Len(state)
          /\ \A i \in 1..Len(state) :
               /\ state'[i].exiting /\ ~state'[i].holding /\ state'[i].mounted
               /\ state'[i].startTime = state[i].startTime
               /\ state'[i].entered = state[i].entered
               /\ state'[i].type = state[i].type
     /\ Cancel(FALSE) => state' = <<>>]_vars

\* two ripples cancelled with ease while holding, before they entered and
\* before 300ms had passed
C8_Witness ==
  /\ Len(state) = 2
  /\ \A i \in 1..2 :
       /\ state[i].exiting /\ ~state[i].holding /\ ~state[i].entered
       /\ Elapsed(state[i]) <= 300
  /\ state[1].startTime < state[2].startTime

\* ---- C9 ----
\* C9: the ripple set never contains two entries with the same startTime,
\* also when CREATE is called twice within one clock tick.
C9_DistinctStartTimes ==
  \A i, j \in 1..Len(state) :
    i # j => state[i].startTime # state[j].startTime

\* ---- C10 ----
\* a RELEASE or ENTERED step that marks entry i exiting
MarksExiting(i) ==
  /\ i \in 1..Len(state)
  /\ ~state[i].exiting
  /\ Len(state') = Len(state)
  /\ state'[i].exiting
  /\ Release \/ \E a \in RippleArgs(state) : Entered(a)

\* C10 as stated: no ripple is marked exiting earlier than 300ms after its
\* startTime by CREATE, RELEASE, ENTERED or REMOVE.
C10_MinimumVisibleDuration ==
  [][\A i \in 1..MaxRipples :
       MarksExiting(i) => Elapsed(state[i]) >= 300]_vars

\* C10 as amended: RELEASE and ENTERED mark a ripple exiting 300ms after its
\* startTime or earlier only when both have been applied to it (it is then
\* released and entered); a ripple that is still held or has not entered is
\* not marked exiting until more than 300ms have passed.
C10_EarlyExitNeedsReleaseAndEntered ==
  [][\A i \in 1..MaxRipples :
       MarksExiting(i) /\ Elapsed(state[i]) <= 300 =>
         ~state'[i].holding /\ state'[i].entered]_vars

\* created, released and entered within one millisecond: exiting at once
C10_Witness ==
  \E i \in 1..Len(state) :
    /\ state[i].startTime = now
    /\ ~state[i].holding /\ state[i].entered /\ state[i].exiting

\* ---- C11 ----
\* C11: RELEASE returns the set unchanged whenever no ripple of the set is
\* holding and not exiting: the empty set, and a set whose holding ripples
\* are all exiting already.
C11_ReleaseWithoutHeldIsNoOp ==
  [][Release /\ ~HasHeld(state) => state' = state]_vars

\* the only holding ripple is exiting (it entered more than 300ms after its
\* creation) and the other ripple was released: RELEASE leaves this set as
\* it is
C11_Witness ==
  /\ Len(state) = 2
  /\ state[1].holding /\ state[1].exiting
  /\ ~state[2].holding
  /\ ~HasHeld(state)

\* ---- C12 ----
NoEntryStartedAt(s, t) == \A i \in 1..Len(s) : s[i].startTime # t

\* C12: ENTERED with a ripple that is no object of the set, and REMOVE with a
\* ripple whose startTime is that of no entry, return the set unchanged; so
\* do REMOVE, ENTERED and RELEASE on the empty set that CANCEL(ease = false)
\* leaves.
C12_AbsentRippleIsNoOp ==
  [][/\ \A a \in RippleArgs(state) :
          /\ ~Present(state, a.ripple) /\ Entered(a) => state' = state
          /\ NoEntryStartedAt(state, a.ripple.startTime) /\ Remove(a) =>
               state' = state
     /\ state = <<>> /\ Release => state' = <<>>]_vars

\* a set of two ripples, the first one replaced since an earlier snapshot, at
\* a time when a ripple created and removed earlier is absent: ENTERED with
\* the earlier record and REMOVE of the absent ripple leave this set as it is
C12_Witness ==
  /\ Len(state) = 2
  /\ ReleasedOnly(state[1])
  /\ state[1].startTime < state[2].startTime
  /\ state[2].startTime < now
  /\ AbsentRipples(state) # {}

\* ---- C13 ----
\* C13: REMOVE is idempotent: for every reachable set and every ripple r,
\* REMOVE(r) applied twice gives the same set as REMOVE(r) applied once.
C13_RemoveIdempotent ==
  \A a \in RippleArgs(state) :
    removeRipple(removeRipple(state, a.ripple), a.ripple)
      = removeRipple(state, a.ripple)

\* ---- C14 ----
\* the events the classifier rejects
Rejected(a) ==
  \/ a.event.target # a.event.currentTarget
  \/ a.event.type = "mousedown" /\ a.event.button # 0
  \/ a.event.type = "keydown" /\ a.event.key \notin {"Enter", " "}
  \/ a.event.type = "keydown" /\ a.event.key = " " /\ a.disableSpacebarClick

\* C14: a CREATE event the classifier rejects never appends to the set, in
\* any state: a bubbled event (target differs from currentTarget), a
\* non-primary pointer button, a key other than Enter and Space, and Space
\* while disableSpacebarClick is set.
C14_RejectedCreateNeverAppends ==
  [][\A a \in CreateActions : Rejected(a) /\ Create(a) => state' = state]_vars

\* one keyboard ripple, no touch ripple, room for another ripple: only the
\* classifier keeps a rejected CREATE from appending here
C14_Witness ==
  /\ Len(state) = 1
  /\ Len(state) < MaxRipples
  /\ state[1].type = "keyboard"
  /\ Fresh(state[1])
  /\ \E a \in CreateActions : Rejected(a) /\ getType(a.event) = "keyboard"

\* ---- C15 ----
\* entry j of the next set continues entry i of the current one: it is the
\* same object, or a new object put in its place
Continues(i, j) ==
  \/ state'[j].ref = state[i].ref
  \/ /\ j = i
     /\ Len(state') = Len(state)
     /\ state'[j].ref \notin UsedRefs(state)

\* C15: there is no timeout of its own: a ripple that is not exiting becomes
\* exiting only by a RELEASE that selects it, an ENTERED with it or
\* CANCEL(ease = true); the passing of time, CREATE, REMOVE and the events
\* applied to other ripples never set its exiting flag.
C15_NoAutonomousTimeout ==
  [][\A i \in 1..Len(state), j \in 1..Len(state') :
       ~state[i].exiting /\ Continues(i, j) /\ state'[j].exiting =>
         \/ Release /\ HasHeld(state) /\ i = FirstHeld(state)
         \/ \E a \in RippleArgs(state) : a.ripple = state[i] /\ Entered(a)
         \/ Cancel(TRUE)]_vars

\* 350ms after its creation a ripple that was neither released nor entered
\* is not exiting, while an older ripple went through its whole life
C15_Witness ==
  /\ Len(state) = 2
  /\ ~state[1].holding /\ state[1].entered /\ state[1].exiting
  /\ Fresh(state[2])
  /\ state[2].startTime = 0
  /\ now = 350

\* ---- C16 ----
\* the step is one of CREATE, RELEASE, ENTERED, REMOVE
RippleEvent ==
  \/ \E a \in CreateActions : Create(a)
  \/ Release
  \/ \E a \in RippleArgs(state) : Entered(a)
  \/ \E a \in RippleArgs(state) : Remove(a)

\* at most one entry is added, replaced or removed; every other entry is
\* the same object with the same fields, at the same place among the others
OneEntryChanged ==
  \/ state' = state
  \/ /\ Len(state') = Len(state) + 1
     /\ SubSeq(state', 1, Len(state)) = state
  \/ \E k \in 1..Len(state) :
       \/ OnlyChanged(state, state', k)
       \/ state' = Without(state, k)

InCreationOrder(s) ==
  \A i, j \in 1..Len(s) : i < j => s[i].startTime <= s[j].startTime

\* C16: each CREATE, RELEASE, ENTERED or REMOVE, in any interleaving across
\* the ripples, changes at most one entry of the set: every other entry
\* keeps its field values and its reference identity, and the surviving
\* entries stay in their creation order.
C16_OneEntryPerEvent ==
  [][/\ OneEntryChanged \/ ~RippleEvent
     /\ InCreationOrder(state')]_vars

\* two ripples of different age, the older released and the younger
\* entered: the events of the two were interleaved
C16_Witness ==
  /\ Len(state) = 2
  /\ ReleasedOnly(state[1])
  /\ EnteredOnly(state[2])
  /\ state[1].startTime < state[2].startTime

\* ---- C17 ----
\* the record the renderer holds is no object of the set any more
RenderedIsStale == rendered # <<>> /\ ~Present(state, rendered[1])

ReleaseOrEntered == Release \/ \E a \in RippleArgs(state) : Entered(a)

\* C18: for as long as a ripple stays in the set, under every event, its
\* exiting never goes from true to false, its holding never from false to
\* true, its entered never from true to false, its mounted is true and its
\* startTime does not change; RELEASE and ENTERED never modify an exiting
\* ripple, so that after CANCEL(ease = true), with every ripple exiting,
\* they leave the set as it is.
C18_FlagsAreMonotonic ==
  [][/\ \A i \in 1..Len(state), j \in 1..Len(state') :
          Continues(i, j) =>
            /\ state[i].exiting => state'[j].exiting
            /\ ~state[i].holding => ~state'[j].holding
            /\ state[i].entered => state'[j].entered
            /\ state'[j].startTime = state[i].startTime
     /\ \A j \in 1..Len(state') : state'[j].mounted
     /\ \/ \A i \in 1..Len(state) :
             state[i].exiting =>
               Len(state') = Len(state) /\ state'[i] = state[i]
        \/ ~ReleaseOrEntered]_vars

\* two ripples right after CANCEL(ease = true): exiting although neither
\* entered nor older than 300ms
C18_Witness ==
  /\ Len(state) = 2
  /\ now = 60
  /\ \A i \in 1..2 :
       ~state[i].holding /\ ~state[i].entered /\ state[i].exiting

CreateAppends == \E a \in CreateActions : Create(a) /\ state' # state

\* an entry leaves the set only when it is exiting
LeavesOnlyExiting ==
  \A i \in 1..Len(state) :
    (\A j \in 1..Len(state') : ~Continues(i, j)) => state[i].exiting

\* once CREATE stops appending, the set eventually stays empty
SetEventuallyEmpty == <>[][~CreateAppends]_vars => <>[](state = <<>>)

\* no two entries of the set have the same startTime
DistinctStartTimes(s) ==
  \A i, j \in 1..Len(s) : i < j => s[i].startTime # s[j].startTime

\* with distinct startTimes an entry leaves the set only when it is exiting
LeavesOnlyExitingIfDistinct ==
  [][DistinctStartTimes(state) => LeavesOnlyExiting]_vars

\* C20: under a cooperative host (RELEASE delivered while a ripple is held,
\* ENTERED with the current record of every ripple that is not exiting,
\* REMOVE for every exiting ripple), if CREATE stops, every ripple becomes
\* exiting before it leaves the set and the set eventually becomes empty.
C20_EveryRippleExitsAndSetEmpties ==
  /\ SetEventuallyEmpty
  /\ [][LeavesOnlyExiting]_vars

====
